---- MODULE Spec2Model ----
(***************************************************************************)
(* DevMate-AI backend (src/backend/server.js): the helpers isLikelyBase64  *)
(* and safeDecode, and the three POST handlers /api/explain, /api/improve  *)
(* and /api/execute, as a state machine of one request.                    *)
(*                                                                         *)
(* JavaScript strings on which the code computes (labels, catalog names,   *)
(* result streams, generated text) are sequences of code points, so that   *)
(* trim, toLowerCase, includes, the regular expression of isLikelyBase64   *)
(* and the base64 / UTF-8 conversions are computed rather than assumed.    *)
(* Strings the code only passes through (status descriptions, error        *)
(* messages, tokens, source code) are TLA+ strings.                        *)
(***************************************************************************)
EXTENDS Integers, Sequences, FiniteSets, TLC

VARIABLES
    endpoint,      \* which route handles the request
    body,          \* req.body: [code, language]
    pc,            \* position of the handler
    langId,        \* let langId (server.js:149)
    token,         \* const token (server.js:201)
    now,           \* Date.now(), in ms since line 210 read it (0 before)
    startAt,       \* const startAt (server.js:210)
    resultData,    \* let resultData (server.js:211)
    response,      \* what res.status(..).json(..) sent, NoResponse before
    sent,          \* number of responses sent on res
    calls,         \* outbound calls issued: [gen, langs, submit, status]
    submitted,     \* the body of the POST /submissions issued, if any
    pollTokens,    \* the tokens the status requests were issued for
    issued,        \* the token the judge returned for this submission
    langsResp,     \* how GET /languages ended, and langsResp.data
    createData,    \* whether POST /submissions answered, and createResp.data
    termAt,        \* index of the first poll response with status.id > 2, 0 if none
    termSnap,      \* that poll response
    failure,       \* the outbound call that threw, and the calls issued until then
    decIn,         \* input of safeDecode (decoder specification)
    decOut,        \* its result
    lastPollAt     \* Date.now() when the latest status request was issued

vars == <<endpoint, body, pc, langId, token, now, startAt, resultData, response,
          sent, calls, submitted, pollTokens, issued, langsResp, createData,
          termAt, termSnap, failure, decIn, decOut,
          lastPollAt>>

-----------------------------------------------------------------------------
(* Bounds *)

\* longest input of safeDecode explored by the decoder specification
MaxLen == 3

-----------------------------------------------------------------------------
(* JavaScript values *)

\* a nullable string: null / undefined, or a string
Null == [isNull |-> TRUE, str |-> <<>>]
Str(s) == [isNull |-> FALSE, str |-> s]

\* String.prototype.trim strips these from both ends (WhiteSpace and
\* LineTerminator of ECMAScript)
IsWhitespace(c) ==
    c \in {9, 10, 11, 12, 13, 32, 160, 5760, 8232, 8233, 8239, 8287, 12288, 65279}
        \cup (8192..8202)

RECURSIVE TrimStart(_)
TrimStart(s) ==
    IF s = <<>> THEN <<>>
    ELSE IF IsWhitespace(Head(s)) THEN TrimStart(Tail(s))
    ELSE s

RECURSIVE TrimEnd(_)
TrimEnd(s) ==
    IF s = <<>> THEN <<>>
    ELSE IF IsWhitespace(s[Len(s)]) THEN TrimEnd(SubSeq(s, 1, Len(s) - 1))
    ELSE s

Trim(s) == TrimEnd(TrimStart(s))

\* String.prototype.toLowerCase on the ASCII and Latin-1 letters
ToLowerCase(s) ==
    [i \in 1..Len(s) |->
        IF s[i] \in 65..90 \/ (s[i] \in 192..222 /\ s[i] # 215) THEN s[i] + 32 ELSE s[i]]

\* String.prototype.includes
Includes(s, sub) ==
    \E i \in 0..(Len(s) - Len(sub)) : SubSeq(s, i + 1, i + Len(sub)) = sub

-----------------------------------------------------------------------------
(* Buffer.from(str, 'base64'), buf.toString('utf8'), Buffer.from(str, 'utf8'), *)
(* buf.toString('base64')                                                      *)

\* value of a base64 character, -1 for a character the decoder skips
\* ('-' and '_' are accepted as the URL-safe forms of '+' and '/')
Unbase64(c) ==
    IF c \in 65..90 THEN c - 65
    ELSE IF c \in 97..122 THEN c - 97 + 26
    ELSE IF c \in 48..57 THEN c - 48 + 52
    ELSE IF c = 43 \/ c = 45 THEN 62
    ELSE IF c = 47 \/ c = 95 THEN 63
    ELSE -1

Base64Char(v) ==
    IF v < 26 THEN 65 + v
    ELSE IF v < 52 THEN 97 + (v - 26)
    ELSE IF v < 62 THEN 48 + (v - 52)
    ELSE IF v = 62 THEN 43
    ELSE 47

\* the 6-bit values the decoder reads: characters outside the alphabet are
\* skipped and the first '=' ends the decoding
RECURSIVE Sextets(_)
Sextets(s) ==
    IF s = <<>> THEN <<>>
    ELSE IF Head(s) = 61 THEN <<>>
    ELSE IF Unbase64(Head(s)) >= 0 THEN <<Unbase64(Head(s))>> \o Sextets(Tail(s))
    ELSE Sextets(Tail(s))

RECURSIVE SextetsToBytes(_)
SextetsToBytes(v) ==
    IF Len(v) < 2 THEN <<>>
    ELSE LET b1 == (v[1] * 4) + (v[2] \div 16)
         IN IF Len(v) = 2 THEN <<b1>>
            ELSE LET b2 == ((v[2] % 16) * 16) + (v[3] \div 4)
                 IN IF Len(v) = 3 THEN <<b1, b2>>
                    ELSE <<b1, b2, ((v[3] % 4) * 64) + v[4]>>
                             \o SextetsToBytes(SubSeq(v, 5, Len(v)))

Base64ToBytes(s) == SextetsToBytes(Sextets(s))

\* buf.toString('base64'), padded with '='
RECURSIVE BytesToBase64(_)
BytesToBase64(b) ==
    IF b = <<>> THEN <<>>
    ELSE LET c1 == Base64Char(b[1] \div 4)
         IN IF Len(b) = 1
            THEN <<c1, Base64Char((b[1] % 4) * 16), 61, 61>>
            ELSE LET c2 == Base64Char(((b[1] % 4) * 16) + (b[2] \div 16))
                 IN IF Len(b) = 2
                    THEN <<c1, c2, Base64Char((b[2] % 16) * 4), 61>>
                    ELSE <<c1, c2, Base64Char(((b[2] % 16) * 4) + (b[3] \div 64)),
                           Base64Char(b[3] % 64)>>
                             \o BytesToBase64(SubSeq(b, 4, Len(b)))

\* buf.toString('utf8'): every maximal ill-formed subsequence becomes U+FFFD.
\* need: continuation bytes still expected, cp: code point so far,
\* lo..hi: range allowed for the next continuation byte
RECURSIVE Utf8Decode(_, _, _, _, _)
Utf8Decode(b, need, cp, lo, hi) ==
    IF b = <<>> THEN (IF need > 0 THEN <<65533>> ELSE <<>>)
    ELSE LET x == Head(b)
             rest == Tail(b)
         IN IF need = 0
            THEN IF x < 128 THEN <<x>> \o Utf8Decode(rest, 0, 0, 128, 191)
                 ELSE IF x \in 194..223 THEN Utf8Decode(rest, 1, x % 32, 128, 191)
                 ELSE IF x \in 224..239
                      THEN Utf8Decode(rest, 2, x % 16,
                                      IF x = 224 THEN 160 ELSE 128,
                                      IF x = 237 THEN 159 ELSE 191)
                 ELSE IF x \in 240..244
                      THEN Utf8Decode(rest, 3, x % 8,
                                      IF x = 240 THEN 144 ELSE 128,
                                      IF x = 244 THEN 143 ELSE 191)
                 ELSE <<65533>> \o Utf8Decode(rest, 0, 0, 128, 191)
            ELSE IF x < lo \/ x > hi
                 THEN <<65533>> \o Utf8Decode(b, 0, 0, 128, 191)
                 ELSE IF need = 1
                      THEN <<(cp * 64) + (x % 64)>> \o Utf8Decode(rest, 0, 0, 128, 191)
                      ELSE Utf8Decode(rest, need - 1, (cp * 64) + (x % 64), 128, 191)

BytesToUtf8String(b) == Utf8Decode(b, 0, 0, 128, 191)

\* Buffer.from(str, 'utf8')
RECURSIVE Utf8Encode(_)
Utf8Encode(s) ==
    IF s = <<>> THEN <<>>
    ELSE LET c == Head(s)
             enc == IF c < 128 THEN <<c>>
                    ELSE IF c < 2048 THEN <<192 + (c \div 64), 128 + (c % 64)>>
                    ELSE IF c < 65536
                         THEN <<224 + (c \div 4096), 128 + ((c \div 64) % 64), 128 + (c % 64)>>
                    ELSE <<240 + (c \div 262144), 128 + ((c \div 4096) % 64),
                           128 + ((c \div 64) % 64), 128 + (c % 64)>>
         IN enc \o Utf8Encode(Tail(s))

\* str.replace(/=+$/, '')
RECURSIVE StripPadding(_)
StripPadding(s) ==
    IF s # <<>> /\ s[Len(s)] = 61 THEN StripPadding(SubSeq(s, 1, Len(s) - 1)) ELSE s

-----------------------------------------------------------------------------
(* Helpers (server.js:44-72) *)

\* /^[A-Za-z0-9+/=\r\n]+$/
MatchesBase64Chars(s) ==
    /\ Len(s) >= 1
    /\ \A i \in 1..Len(s) :
          \/ s[i] \in 65..90
          \/ s[i] \in 97..122
          \/ s[i] \in 48..57
          \/ s[i] \in {43, 47, 61, 13, 10}

\* isLikelyBase64(str) for a string str
isLikelyBase64(str) ==
    LET maybe == Trim(str)
    IN IF ~MatchesBase64Chars(maybe) THEN FALSE
       ELSE LET decoded == BytesToUtf8String(Base64ToBytes(maybe))
                reencoded == StripPadding(BytesToBase64(Utf8Encode(decoded)))
                normalized == StripPadding(maybe)
            IN reencoded = normalized

\* a decoder that trims what it does not decode
safeDecodeTrimmed(maybeB64) ==
    IF maybeB64.isNull THEN <<>>
    ELSE IF isLikelyBase64(maybeB64.str)
         THEN BytesToUtf8String(Base64ToBytes(maybeB64.str))
         ELSE TrimEnd(maybeB64.str)

\* safeDecode(maybeB64): maybeB64 is null / undefined or a string
safeDecode(maybeB64) ==
    IF maybeB64.isNull THEN <<>>
    ELSE LET s == maybeB64.str
         IN IF isLikelyBase64(s)
            THEN BytesToUtf8String(Base64ToBytes(s))
            ELSE s

-----------------------------------------------------------------------------
(* String constants *)

\* "python"
S_python == <<112, 121, 116, 104, 111, 110>>
\* "javascript"
S_javascript == <<106, 97, 118, 97, 115, 99, 114, 105, 112, 116>>
\* "java"
S_java == <<106, 97, 118, 97>>
\* "c"
S_c == <<99>>
\* "c++"
S_cpp == <<99, 43, 43>>
\* "ru"
S_ru == <<114, 117>>
\* "RUBY"
S_RUBY == <<82, 85, 66, 89>>
\* "cobol"
S_cobol == <<99, 111, 98, 111, 108>>
\* "constructor"
S_constructor == <<99, 111, 110, 115, 116, 114, 117, 99, 116, 111, 114>>
\* "toString"
S_toString == <<116, 111, 83, 116, 114, 105, 110, 103>>
\* "valueOf"
S_valueOf == <<118, 97, 108, 117, 101, 79, 102>>
\* "Ruby (2.7.0)"
S_Ruby == <<82, 117, 98, 121, 32, 40, 50, 46, 55, 46, 48, 41>>
\* "Rust (1.40.0)"
S_Rust == <<82, 117, 115, 116, 32, 40, 49, 46, 52, 48, 46, 48, 41>>
\* "R"
S_R == <<82>>
\* "RU-lang"
S_RUlang == <<82, 85, 45, 108, 97, 110, 103>>
\* "No output"
S_NoOutput == <<78, 111, 32, 111, 117, 116, 112, 117, 116>>
\* "No correction required"
S_NoCorr == <<78, 111, 32, 99, 111, 114, 114, 101, 99, 116, 105, 111, 110, 32, 114, 101, 113, 117, 105, 114, 101, 100>>
\* "No correction generated"
S_NoCorrGen == <<78, 111, 32, 99, 111, 114, 114, 101, 99, 116, 105, 111, 110, 32, 103, 101, 110, 101, 114, 97, 116, 101, 100>>
\* "No explanation generated"
S_NoExpl == <<78, 111, 32, 101, 120, 112, 108, 97, 110, 97, 116, 105, 111, 110, 32, 103, 101, 110, 101, 114, 97, 116, 101, 100>>
\* "print(1)"
S_src == <<112, 114, 105, 110, 116, 40, 49, 41>>
\* "Cg==", the base64 of "\n"
S_b64Newline == <<67, 103, 61, 61>>
\* "Y2U=", the base64 of "ce"
S_b64ce == <<89, 50, 85, 61>>
\* "aGk=", the base64 of "hi"
S_b64hi == <<97, 71, 107, 61>>
\* "err!"
S_err == <<101, 114, 114, 33>>
\* "  "
S_blank == <<32, 32>>
\* " x=1\n"
S_code1 == <<32, 120, 61, 49, 10>>
\* "ok. No correction required."
S_okNoCorr == <<111, 107, 46, 32>> \o S_NoCorr \o <<46>>

-----------------------------------------------------------------------------
(* JavaScript values of langId: undefined, a number, or an object / function *)

Undefined == [kind |-> "undefined", num |-> 0]
Num(n) == [kind |-> "number", num |-> n]
\* a member inherited from Object.prototype (a function or an object)
ProtoMember == [kind |-> "object", num |-> 0]

Truthy(v) == v.kind = "object" \/ (v.kind = "number" /\ v.num # 0)

\* own keys of DEFAULT_LANGUAGE_IDS (server.js:75-81)
TableKeys == {S_python, S_javascript, S_java, S_c, S_cpp}

TableId(label) ==
    IF label = S_python THEN 71
    ELSE IF label = S_javascript THEN 63
    ELSE IF label = S_java THEN 62
    ELSE IF label = S_c THEN 50
    ELSE 54

\* property names every object literal inherits from Object.prototype
ObjectPrototypeKeys == {S_constructor, S_toString, S_valueOf}

\* a table in which every compiled language has the id of C
LookupAllC(label) ==
    IF label \in TableKeys
    THEN (IF label \in {S_python, S_javascript} THEN Num(TableId(label)) ELSE Num(50))
    ELSE IF label \in ObjectPrototypeKeys THEN ProtoMember
    ELSE Undefined

\* DEFAULT_LANGUAGE_IDS[language] (server.js:149): a property read of an
\* object literal, which also finds the members of Object.prototype
DEFAULT_LANGUAGE_IDS(label) ==
    IF label \in TableKeys THEN Num(TableId(label))
    ELSE IF label \in ObjectPrototypeKeys THEN ProtoMember
    ELSE Undefined

-----------------------------------------------------------------------------
(* Inputs: request bodies and the answers of the external services *)

Endpoints == {"explain", "improve", "execute"}

Labels == TableKeys \cup {S_ru, S_RUBY, S_cobol, S_constructor}

Bodies ==
    [code : {Null, Str(<<>>), Str(S_src)},
     language : {Null, Str(<<>>)} \cup {Str(l) : l \in Labels}]

\* records of the language catalog (GET /languages)
RecRuby == [id |-> Num(72), name |-> Str(S_Ruby), slug |-> Null]
RecRust == [id |-> Num(73), name |-> Str(S_Rust), slug |-> Null]
RecSlug == [id |-> Num(99), name |-> Str(S_R), slug |-> Str(S_RUlang)]

Catalogs ==
    {<<>>, <<RecRuby, RecRust>>, <<RecRust, RecRuby>>, <<RecSlug, RecRuby>>, <<RecRust>>}

\* langsResp.data: a list, or anything else
LangsNone == [isList |-> FALSE, list |-> <<>>]
LangsDatas == {LangsNone} \cup {[isList |-> TRUE, list |-> c] : c \in Catalogs}

\* createResp.data: null, or an object with or without a token
CreateNull == [isNull |-> TRUE, hasToken |-> FALSE, token |-> "", error |-> ""]
CreateDatas ==
    {CreateNull,
     [isNull |-> FALSE, hasToken |-> TRUE, token |-> "tokA", error |-> ""],
     [isNull |-> FALSE, hasToken |-> TRUE, token |-> "tokB", error |-> ""],
     [isNull |-> FALSE, hasToken |-> TRUE, token |-> "", error |-> ""],
     [isNull |-> FALSE, hasToken |-> FALSE, token |-> "", error |-> "queue is full"]}

NoToken == [defined |-> FALSE, val |-> ""]

\* getResp.data: null / empty, or a submission object
NullData ==
    [isNull |-> TRUE, hasStatus |-> FALSE, statusId |-> 0, statusDesc |-> "",
     compile_output |-> Null, stderr |-> Null, stdout |-> Null]

Snap(hasStatus, id, desc, c, e, o) ==
    [isNull |-> FALSE, hasStatus |-> hasStatus, statusId |-> id, statusDesc |-> desc,
     compile_output |-> c, stderr |-> e, stdout |-> o]

NonTerminalSnaps ==
    {NullData,
     Snap(TRUE, 1, "In Queue", Null, Null, Null),
     Snap(TRUE, 2, "Processing", Null, Null, Str(S_b64hi)),
     Snap(FALSE, 0, "", Null, Str(S_err), Null)}

TerminalSnaps ==
    {Snap(TRUE, 3, "Accepted", c, e, o) :
        c \in {Null, Str(S_b64Newline), Str(S_b64ce)},
        e \in {Str(S_blank), Str(S_err)},
        o \in {Str(<<>>), Str(S_b64hi)}}
    \cup {Snap(TRUE, 6, "Compilation Error", Str(S_b64ce), Null, Null)}

Snapshots == NonTerminalSnaps \cup TerminalSnaps

\* response.text?.() of the generative model
GenTexts == {Null, Str(<<>>), Str(S_blank), Str(S_code1), Str(S_okNoCorr)}

\* time a status request takes, in ms
Latencies == {0, 10000}

\* how late a timer may fire, in ms
TimerLateness == {0, 10000}

pollIntervalMs == 800
timeoutMs == 20000

-----------------------------------------------------------------------------
(* Responses *)

NoCalls == [gen |-> 0, langs |-> 0, submit |-> 0, status |-> 0]
NoFailure == [call |-> "none", calls |-> NoCalls]

NoResponse ==
    [status |-> 0, kind |-> "none", error |-> "", details |-> "", text |-> <<>>,
     jobStatus |-> "", token |-> "", raw |-> NullData, rawCreate |-> CreateNull]

\* res.status(code).json({ error })
ErrorResponse(code, msg) == [NoResponse EXCEPT !.status = code, !.kind = "error", !.error = msg]

\* !v for a nullable string
Falsy(v) == v.isNull \/ v.str = <<>>

\* a check that forgets the language
InvalidBodyCodeOnly(b) == Falsy(b.code)

\* !code || !language (server.js:90, 117, 145)
InvalidBody(b) == Falsy(b.code) \/ Falsy(b.language)

BadRequest == ErrorResponse(400, "Code and language required")

\* the catch blocks (server.js:107-110, 134-137, 260-264)
CatchResponse(ep, err) ==
    IF ep = "explain" THEN ErrorResponse(500, "Failed to generate explanation")
    ELSE IF ep = "improve" THEN ErrorResponse(500, "Failed to generate improvements")
    ELSE [ErrorResponse(500, "Execution failed") EXCEPT !.details = err]

\* ways an outbound call fails (err.message or err.response.data)
Failures == {"Network Error"}

-----------------------------------------------------------------------------
(* /api/explain and /api/improve (server.js:87-138) *)

\* text || 'No explanation generated' (server.js:105-106)
Explanation(t) ==
    LET text == IF t.isNull THEN <<>> ELSE t.str
    IN IF text # <<>> THEN text ELSE S_NoExpl

\* server.js:130-133
ImprovedCode(t) ==
    LET improvedCode == IF t.isNull THEN <<>> ELSE t.str
    IN IF Includes(improvedCode, S_NoCorr) THEN S_NoCorr
       ELSE IF Trim(improvedCode) # <<>> THEN Trim(improvedCode)
       ELSE S_NoCorrGen

\* the handler up to model.generateContent(prompt)
GenStart ==
    /\ pc = "start"
    /\ endpoint \in {"explain", "improve"}
    /\ IF InvalidBody(body)
       THEN /\ response' = BadRequest
            /\ sent' = sent + 1
            /\ pc' = "done"
            /\ UNCHANGED calls
       ELSE /\ calls' = [calls EXCEPT !.gen = @ + 1]
            /\ pc' = "awaitGen"
            /\ UNCHANGED <<response, sent>>
    /\ UNCHANGED <<endpoint, body, langId, token, now, startAt, resultData, submitted,
                   pollTokens, issued, langsResp, createData, termAt, termSnap,
                   failure, decIn, decOut,
                   lastPollAt>>

\* the generative model answers
GenReply ==
    /\ pc = "awaitGen"
    /\ \E t \in GenTexts :
          /\ response' =
                [NoResponse EXCEPT
                    !.status = 200,
                    !.kind = IF endpoint = "explain" THEN "explanation" ELSE "improvedCode",
                    !.text = IF endpoint = "explain" THEN Explanation(t) ELSE ImprovedCode(t)]
    /\ sent' = sent + 1
    /\ pc' = "done"
    /\ UNCHANGED <<endpoint, body, langId, token, now, startAt, resultData, calls,
                   submitted, pollTokens, issued, langsResp, createData, termAt,
                   termSnap, failure, decIn, decOut,
                   lastPollAt>>

\* the call to the generative model throws
GenFail ==
    /\ pc = "awaitGen"
    /\ \E f \in Failures : response' = CatchResponse(endpoint, f)
    /\ failure' = [call |-> "gen", calls |-> calls]
    /\ sent' = sent + 1
    /\ pc' = "done"
    /\ UNCHANGED <<endpoint, body, langId, token, now, startAt, resultData, calls,
                   submitted, pollTokens, issued, langsResp, createData, termAt,
                   termSnap, decIn, decOut,
                   lastPollAt>>

-----------------------------------------------------------------------------
(* /api/execute (server.js:141-265) *)

\* the callback of find (server.js:162-166)
RecordMatches(rec, language) ==
    LET name == ToLowerCase(IF Falsy(rec.name) THEN <<>> ELSE rec.name.str)
        slug == ToLowerCase(IF Falsy(rec.slug) THEN <<>> ELSE rec.slug.str)
    IN Includes(name, ToLowerCase(language)) \/ Includes(slug, ToLowerCase(language))

\* langId after the catalog answered (server.js:161-173)
DetectLanguage(data, language) ==
    IF ~data.isList THEN Undefined
    ELSE LET hits == {i \in 1..Len(data.list) : RecordMatches(data.list[i], language)}
         IN IF hits = {} THEN Undefined
            ELSE data.list[CHOOSE i \in hits : \A j \in hits : i <= j].id

NoSubmission == [sent |-> FALSE, source_code |-> Null, language_id |-> Undefined, stdin |-> <<>>]

\* the body of POST /submissions (server.js:186-190)
Submission(code, id) ==
    [sent |-> TRUE, source_code |-> code, language_id |-> id, stdin |-> <<>>]

\* if (!langId) respond 400, else issue the submission (server.js:181-197)
SubmitOrReject(id) ==
    IF ~Truthy(id)
    THEN /\ response' = ErrorResponse(400, "Unsupported language")
         /\ sent' = sent + 1
         /\ pc' = "done"
         /\ UNCHANGED <<calls, submitted>>
    ELSE /\ calls' = [calls EXCEPT !.submit = @ + 1]
         /\ submitted' = Submission(body.code, id)
         /\ pc' = "awaitSubmit"
         /\ UNCHANGED <<response, sent>>

\* the handler up to its first await
ExecuteStart ==
    /\ pc = "start"
    /\ endpoint = "execute"
    /\ IF InvalidBody(body)
       THEN /\ response' = BadRequest
            /\ sent' = sent + 1
            /\ pc' = "done"
            /\ UNCHANGED <<calls, submitted, langId>>
       ELSE /\ langId' = DEFAULT_LANGUAGE_IDS(body.language.str)
            /\ IF ~Truthy(langId')
               THEN /\ calls' = [calls EXCEPT !.langs = @ + 1]
                    /\ pc' = "awaitLangs"
                    /\ UNCHANGED <<response, sent, submitted>>
               ELSE SubmitOrReject(langId')
    /\ UNCHANGED <<endpoint, body, token, now, startAt, resultData, pollTokens, issued,
                   langsResp, createData, termAt, termSnap, failure, decIn, decOut,
                   lastPollAt>>

\* GET /languages answers (server.js:154-173, 181-197)
LangsReply ==
    /\ pc = "awaitLangs"
    /\ \E data \in LangsDatas :
          /\ langsResp' = [state |-> "answered", data |-> data]
          /\ langId' = DetectLanguage(data, body.language.str)
          /\ SubmitOrReject(langId')
    /\ UNCHANGED <<endpoint, body, token, now, startAt, resultData, pollTokens, issued,
                   createData, termAt, termSnap, failure, decIn, decOut,
                   lastPollAt>>

\* a catalog failure that reaches the outer catch
LangsFailRethrown ==
    /\ pc = "awaitLangs"
    /\ langsResp' = [state |-> "failed", data |-> LangsNone]
    /\ \E f \in Failures : response' = CatchResponse(endpoint, f)
    /\ sent' = sent + 1
    /\ pc' = "done"
    /\ UNCHANGED <<endpoint, body, langId, token, now, startAt, resultData, calls,
                   submitted, pollTokens, issued, createData, termAt, termSnap, failure,
                   decIn, decOut,
                   lastPollAt>>

\* GET /languages throws: caught and logged (server.js:174-176, 181-183)
LangsFail ==
    /\ pc = "awaitLangs"
    /\ langsResp' = [state |-> "failed", data |-> LangsNone]
    /\ SubmitOrReject(langId)
    /\ UNCHANGED <<endpoint, body, langId, token, now, startAt, resultData, pollTokens,
                   issued, createData, termAt, termSnap, failure, decIn, decOut,
                   lastPollAt>>

\* a precedence that prefers stderr to the compile output
BuildOutputStderrFirst(rd) ==
    LET compileOutput == safeDecode(rd.compile_output)
        stderr == safeDecode(rd.stderr)
        stdout == safeDecode(rd.stdout)
    IN IF stderr # <<>> /\ Trim(stderr) # <<>> THEN stderr
       ELSE IF compileOutput # <<>> /\ Trim(compileOutput) # <<>> THEN compileOutput
       ELSE IF stdout # <<>> /\ Trim(stdout) # <<>> THEN stdout
       ELSE S_NoOutput

\* lines 240-251: decode the three streams and pick one
BuildOutput(rd) ==
    LET compileOutput == safeDecode(rd.compile_output)
        stderr == safeDecode(rd.stderr)
        stdout == safeDecode(rd.stdout)
    IN IF compileOutput # <<>> /\ Trim(compileOutput) # <<>> THEN compileOutput
       ELSE IF stderr # <<>> /\ Trim(stderr) # <<>> THEN stderr
       ELSE IF stdout # <<>> /\ Trim(stdout) # <<>> THEN stdout
       ELSE S_NoOutput

\* a handler that reports only finished jobs
ExecuteResultTerminalOnly(rd, tok) ==
    IF rd.isNull \/ ~(rd.hasStatus /\ rd.statusId > 2)
    THEN ErrorResponse(500, "No result received from Judge0")
    ELSE [NoResponse EXCEPT
            !.status = 200,
            !.kind = "result",
            !.text = BuildOutput(rd),
            !.jobStatus = IF rd.hasStatus THEN rd.statusDesc ELSE "Unknown",
            !.token = tok,
            !.raw = rd]

\* the handler after the poll loop (server.js:231-258)
ExecuteResult(rd, tok) ==
    IF rd.isNull
    THEN ErrorResponse(500, "No result received from Judge0")
    ELSE [NoResponse EXCEPT
            !.status = 200,
            !.kind = "result",
            !.text = BuildOutput(rd),
            !.jobStatus = IF rd.hasStatus THEN rd.statusDesc ELSE "Unknown",
            !.token = tok,
            !.raw = rd]

AfterLoop(rd, tok) ==
    /\ response' = ExecuteResult(rd, tok)
    /\ sent' = sent + 1
    /\ pc' = "done"

\* a status request for a fixed token
IssueStatusFixed(tok) ==
    /\ calls' = [calls EXCEPT !.status = @ + 1]
    /\ pollTokens' = pollTokens \cup {"tokA"}
    /\ lastPollAt' = now'
    /\ pc' = "awaitPoll"

\* axios.get(`.../submissions/${token}`) is issued (server.js:214-220)
IssueStatus(tok) ==
    /\ calls' = [calls EXCEPT !.status = @ + 1]
    /\ pollTokens' = pollTokens \cup {tok}
    /\ lastPollAt' = now'
    /\ pc' = "awaitPoll"

\* a loop whose condition still holds when the timeout has just elapsed
LoopHeadInclusive(t, sAt, rd, tok) ==
    IF t - sAt <= timeoutMs
    THEN /\ IssueStatus(tok)
         /\ UNCHANGED <<response, sent>>
    ELSE /\ AfterLoop(rd, tok)
         /\ UNCHANGED <<calls, pollTokens, lastPollAt>>

\* the loop condition (server.js:213) at time t
LoopHead(t, sAt, rd, tok) ==
    IF t - sAt < timeoutMs
    THEN /\ IssueStatus(tok)
         /\ UNCHANGED <<response, sent>>
    ELSE /\ AfterLoop(rd, tok)
         /\ UNCHANGED <<calls, pollTokens, lastPollAt>>

\* POST /submissions answers (server.js:199-220)
SubmitReply ==
    /\ pc = "awaitSubmit"
    /\ \E data \in CreateDatas :
          /\ createData' = [answered |-> TRUE, data |-> data]
          /\ issued' = IF data.hasToken THEN [defined |-> TRUE, val |-> data.token] ELSE NoToken
          /\ token' = issued'
          /\ IF ~token'.defined \/ token'.val = ""
             THEN /\ response' = [ErrorResponse(500, "Judge0 did not return a token")
                                     EXCEPT !.kind = "noToken", !.rawCreate = data]
                  /\ sent' = sent + 1
                  /\ pc' = "done"
                  /\ UNCHANGED <<now, startAt, resultData, calls, pollTokens,
                               lastPollAt>>
             ELSE /\ now' = 0
                  /\ startAt' = now'
                  /\ resultData' = NullData
                  /\ LoopHead(now', startAt', resultData', token'.val)
    /\ UNCHANGED <<endpoint, body, langId, submitted, langsResp, termAt, termSnap,
                   failure, decIn, decOut>>

\* POST /submissions throws (server.js:260-264)
SubmitFail ==
    /\ pc = "awaitSubmit"
    /\ \E f \in Failures : response' = CatchResponse(endpoint, f)
    /\ failure' = [call |-> "submit", calls |-> calls]
    /\ sent' = sent + 1
    /\ pc' = "done"
    /\ UNCHANGED <<endpoint, body, langId, token, now, startAt, resultData, calls, submitted,
                   pollTokens, issued, langsResp, createData, termAt, termSnap,
                   decIn, decOut,
                   lastPollAt>>

\* a loop that goes on while the job is accepted (status.id 3)
IsTerminalAbove3(rd) == (IF ~rd.isNull /\ rd.hasStatus THEN rd.statusId ELSE 0) > 3

\* status.id > 2 (server.js:226-227)
IsTerminal(rd) == (IF ~rd.isNull /\ rd.hasStatus THEN rd.statusId ELSE 0) > 2

\* a status request answers (server.js:222-228)
PollReply ==
    /\ pc = "awaitPoll"
    /\ \E data \in Snapshots, l \in Latencies :
          /\ now' = now + l
          /\ resultData' = data
          /\ IF IsTerminal(data)
             THEN /\ AfterLoop(data, token.val)
             ELSE /\ pc' = "sleep"
                  /\ UNCHANGED <<response, sent>>
          /\ IF termAt = 0 /\ ~data.isNull /\ data.hasStatus /\ data.statusId > 2
             THEN termAt' = calls.status /\ termSnap' = data
             ELSE UNCHANGED <<termAt, termSnap>>
    /\ UNCHANGED <<endpoint, body, langId, token, startAt, calls, submitted, pollTokens,
                   issued, langsResp, createData, failure, decIn, decOut,
                   lastPollAt>>

\* a failed status request answered from the snapshot polled before it
PollFailKeepsSnapshot ==
    /\ pc = "awaitPoll"
    /\ \E l \in Latencies : now' = now + l
    /\ response' = ExecuteResult(resultData, token.val)
    /\ failure' = [call |-> "status", calls |-> calls]
    /\ sent' = sent + 1
    /\ pc' = "done"
    /\ UNCHANGED <<endpoint, body, langId, token, startAt, resultData, calls, submitted,
                   pollTokens, issued, langsResp, createData, termAt, termSnap,
                   decIn, decOut,
                   lastPollAt>>

\* a status request throws (server.js:260-264)
PollFail ==
    /\ pc = "awaitPoll"
    /\ \E f \in Failures, l \in Latencies :
          /\ now' = now + l
          /\ response' = CatchResponse(endpoint, f)
    /\ failure' = [call |-> "status", calls |-> calls]
    /\ sent' = sent + 1
    /\ pc' = "done"
    /\ UNCHANGED <<endpoint, body, langId, token, startAt, resultData, calls, submitted,
                   pollTokens, issued, langsResp, createData, termAt, termSnap,
                   decIn, decOut,
                   lastPollAt>>

\* the timer of server.js:228 fires and the loop condition is evaluated again
TimerFires ==
    /\ pc = "sleep"
    /\ \E late \in TimerLateness :
          /\ now' = now + pollIntervalMs + late
          /\ LoopHead(now', startAt, resultData, token.val)
    /\ UNCHANGED <<endpoint, body, langId, token, startAt, resultData, submitted, issued,
                   langsResp, createData, termAt, termSnap, failure, decIn, decOut>>

-----------------------------------------------------------------------------
(* Specification of one request *)

NoLangsResp == [state |-> "none", data |-> LangsNone]
NoCreateResp == [answered |-> FALSE, data |-> CreateNull]

Idle ==
    /\ langId = Undefined
    /\ token = NoToken
    /\ now = 0
    /\ startAt = 0
    /\ resultData = NullData
    /\ response = NoResponse
    /\ sent = 0
    /\ calls = NoCalls
    /\ submitted = NoSubmission
    /\ pollTokens = {}
    /\ issued = NoToken
    /\ langsResp = NoLangsResp
    /\ createData = NoCreateResp
    /\ termAt = 0
    /\ termSnap = NullData
    /\ failure = NoFailure
    /\ lastPollAt = 0

Init ==
    /\ endpoint \in Endpoints
    /\ body \in Bodies
    /\ pc = "start"
    /\ Idle
    /\ decIn = Null
    /\ decOut = Null

Next ==
    \/ GenStart
    \/ GenReply
    \/ GenFail
    \/ ExecuteStart
    \/ LangsReply
    \/ LangsFail
    \/ SubmitReply
    \/ SubmitFail
    \/ PollReply
    \/ PollFail
    \/ TimerFires

Spec == Init /\ [][Next]_vars

-----------------------------------------------------------------------------
(* Specification of the decoder alone: safeDecode applied to every input  *)
(* of at most MaxLen characters over DecChars                              *)

\* 'a', 'G', 'k', '=', line feed, space, '!'
DecChars == {97, 71, 107, 61, 10, 32, 33}

DecInputs ==
    {Null} \cup {Str(s) : s \in UNION {[1..n -> DecChars] : n \in 0..MaxLen}}

InitDecode ==
    /\ endpoint = "execute"
    /\ body = [code |-> Null, language |-> Null]
    /\ pc = "decode"
    /\ Idle
    /\ decIn \in DecInputs
    /\ decOut = Null

\* const compileOutput = safeDecode(resultData.compile_output) and the like
Decode ==
    /\ pc = "decode"
    /\ decOut' = Str(safeDecode(decIn))
    /\ pc' = "decoded"
    /\ UNCHANGED <<endpoint, body, langId, token, now, startAt, resultData, response,
                   sent, calls, submitted, pollTokens, issued, langsResp, createData,
                   termAt, termSnap, failure, decIn, lastPollAt>>

NextDecode == Decode

SpecDecode == InitDecode /\ [][NextDecode]_vars

-----------------------------------------------------------------------------
(* Properties of /api/execute, /api/explain and /api/improve *)

NoResultMsg == "No result received from Judge0"

\* C1: once a poll response carries status.id > 2 (the termAt-th response),
\* the handler has issued one submission and exactly termAt status requests,
\* issues none afterwards, and has answered 200 with the output, status, token
\* and raw data of that response; a status request is outstanding only while
\* no response so far carried status.id > 2.
C1_PollsUntilTerminal ==
    /\ termAt > 0 =>
          /\ pc = "done"
          /\ calls.submit = 1
          /\ calls.status = termAt
          /\ response.status = 200
          /\ response.kind = "result"
          /\ response.raw = termSnap
          /\ response.text = BuildOutput(termSnap)
          /\ response.jobStatus = termSnap.statusDesc
          /\ response.token = issued.val
    /\ pc \in {"awaitPoll", "sleep"} => termAt = 0

\* the job finishes (status.id 3) on the second poll response
C1_Witness ==
    /\ pc = "done"
    /\ termAt = 2
    /\ termSnap.statusId = 3
    /\ calls.status = 2
    /\ calls.submit = 1
    /\ response.raw = termSnap

\* the three decoded streams of the final result
DecodedCompile == safeDecode(response.raw.compile_output)
DecodedStderr == safeDecode(response.raw.stderr)
DecodedStdout == safeDecode(response.raw.stdout)

\* only whitespace, or nothing at all
Blank(s) == \A i \in 1..Len(s) : IsWhitespace(s[i])

\* C2 as stated: the output is the first non-empty stream among compile
\* output, stderr and stdout, and "No output" only when all three are empty.
C2_Original ==
    response.kind = "result" =>
        /\ DecodedCompile # <<>> => response.text = DecodedCompile
        /\ DecodedCompile = <<>> /\ DecodedStderr # <<>> => response.text = DecodedStderr
        /\ DecodedCompile = <<>> /\ DecodedStderr = <<>> /\ DecodedStdout # <<>>
              => response.text = DecodedStdout
        /\ response.text = S_NoOutput
              => DecodedCompile = <<>> /\ DecodedStderr = <<>> /\ DecodedStdout = <<>>

\* C2 (amended): the output is the first stream among compile output, stderr
\* and stdout that has a non-whitespace character, and "No output" when all
\* three are empty or whitespace only.
C2_OutputPrecedence ==
    response.kind = "result" =>
        /\ ~Blank(DecodedCompile) => response.text = DecodedCompile
        /\ Blank(DecodedCompile) /\ ~Blank(DecodedStderr) => response.text = DecodedStderr
        /\ Blank(DecodedCompile) /\ Blank(DecodedStderr) /\ ~Blank(DecodedStdout)
              => response.text = DecodedStdout
        /\ Blank(DecodedCompile) /\ Blank(DecodedStderr) /\ Blank(DecodedStdout)
              => response.text = S_NoOutput

\* a whitespace-only compile output is passed over for stderr
C2_Witness ==
    /\ response.kind = "result"
    /\ DecodedCompile # <<>>
    /\ Blank(DecodedCompile)
    /\ ~Blank(DecodedStderr)
    /\ response.text = DecodedStderr

\* the poll loop ended by its timeout: every status request was answered,
\* none of the answers carried status.id > 2
TimedOut ==
    /\ endpoint = "execute"
    /\ pc = "done"
    /\ calls.status >= 1
    /\ termAt = 0
    /\ failure.call = "none"

\* C3 as stated: after a timeout with at least one poll response the handler
\* answers 200 from the last snapshot; "No result received from Judge0" is
\* sent only when no poll response was received.
C3_Original ==
    /\ TimedOut =>
          /\ response.status = 200
          /\ response.kind = "result"
          /\ response.raw = resultData
    /\ response.error = NoResultMsg => calls.status = 0

\* C3 (amended): after a timeout the handler answers 200 with output, status
\* and token built from the last poll response when that response had a body,
\* and 500 "No result received from Judge0" when the last poll response had
\* no body (null or empty); that error is sent in no other case.
C3_TimeoutUsesLastSnapshot ==
    /\ TimedOut /\ ~resultData.isNull =>
          /\ now - startAt >= timeoutMs
          /\ response.status = 200
          /\ response.kind = "result"
          /\ response.raw = resultData
          /\ response.text = BuildOutput(resultData)
          /\ response.jobStatus = (IF resultData.hasStatus THEN resultData.statusDesc ELSE "Unknown")
          /\ response.token = issued.val
    /\ TimedOut /\ resultData.isNull => response = ErrorResponse(500, NoResultMsg)
    /\ response.error = NoResultMsg => TimedOut /\ resultData.isNull

\* the timeout passes while the job is still processing
C3_Witness ==
    /\ TimedOut
    /\ now - startAt >= timeoutMs
    /\ resultData.hasStatus
    /\ resultData.statusId = 2
    /\ response.status = 200
    /\ response.raw = resultData
    /\ response.text = <<104, 105>>

\* code or language is missing or empty in the request body
BodyIncomplete ==
    \/ body.code.isNull
    \/ body.code.str = <<>>
    \/ body.language.isNull
    \/ body.language.str = <<>>

\* C4: on each of the three endpoints a body without code or without language
\* is answered 400 with a JSON error and no outbound call is ever issued.
C4_MissingFieldRejected ==
    BodyIncomplete =>
        /\ calls = NoCalls
        /\ pc \in {"start", "done"}
        /\ pc = "done" =>
              /\ sent = 1
              /\ response.status = 400
              /\ response.kind = "error"
              /\ response.error = "Code and language required"

\* /api/improve rejects a body that has code but no language
C4_Witness ==
    /\ endpoint = "improve"
    /\ ~body.code.isNull
    /\ body.code.str # <<>>
    /\ body.language.isNull
    /\ pc = "done"
    /\ response.status = 400
    /\ calls = NoCalls

\* the static language table as the documentation gives it
StaticTable ==
    {<<S_python, 71>>, <<S_javascript, 63>>, <<S_java, 62>>, <<S_c, 50>>, <<S_cpp, 54>>}

\* C5: a label that is a key of the static table is resolved to the table's
\* identifier, that identifier is submitted as language_id, and the language
\* catalog is never queried.
C5_TableLabelResolved ==
    \A e \in StaticTable :
        (endpoint = "execute" /\ ~BodyIncomplete /\ body.language.str = e[1] /\ pc # "start") =>
            /\ calls.langs = 0
            /\ langId = Num(e[2])
            /\ calls.submit = 1
            /\ submitted.sent
            /\ submitted.language_id = Num(e[2])
            /\ submitted.source_code = body.code

\* "c++" is submitted as 54
C5_Witness ==
    /\ endpoint = "execute"
    /\ body.language = Str(S_cpp)
    /\ pc = "awaitSubmit"
    /\ submitted.language_id = Num(54)
    /\ calls.langs = 0

UnsupportedLanguage == ErrorResponse(400, "Unsupported language")

\* the catalog records whose name or slug contains the label, case-insensitively
CatalogHits(list, label) ==
    {i \in 1..Len(list) :
        \/ Includes(ToLowerCase(IF list[i].name.isNull THEN <<>> ELSE list[i].name.str),
                    ToLowerCase(label))
        \/ Includes(ToLowerCase(IF list[i].slug.isNull THEN <<>> ELSE list[i].slug.str),
                    ToLowerCase(label))}

\* C6 as stated: for a label that is not a key of the static table the
\* catalog is queried exactly once, the id of the first matching record is
\* submitted, and without a match the answer is 400 "Unsupported language"
\* with no submission and no status request.
C6_Claim ==
    (/\ endpoint = "execute"
     /\ ~BodyIncomplete
     /\ body.language.str \notin {e[1] : e \in StaticTable}
     /\ pc # "start") =>
        /\ calls.langs = 1
        /\ (langsResp.state = "answered" /\ langsResp.data.isList) =>
              LET list == langsResp.data.list
                  hits == CatalogHits(list, body.language.str)
              IN IF hits = {}
                 THEN /\ pc = "done"
                      /\ response = UnsupportedLanguage
                      /\ calls.submit = 0
                      /\ calls.status = 0
                 ELSE /\ submitted.sent
                      /\ submitted.language_id = list[CHOOSE i \in hits : \A j \in hits : i <= j].id

\* C7: when the catalog query throws or answers something that is not a
\* list, the request ends as it does for a list without a match: 400
\* "Unsupported language", no submission, no status request.
C7_CatalogFailureIsNoMatch ==
    (\/ langsResp.state = "failed"
     \/ langsResp.state = "answered" /\ ~langsResp.data.isList
     \/ langsResp.state = "answered" /\ langsResp.data.isList /\ langsResp.data.list = <<>>) =>
        /\ pc = "done"
        /\ sent = 1
        /\ response = UnsupportedLanguage
        /\ calls.langs = 1
        /\ calls.submit = 0
        /\ calls.status = 0

\* the catalog query failed and the request was answered 400
C7_Witness ==
    /\ langsResp.state = "failed"
    /\ pc = "done"
    /\ response.status = 400
    /\ response.error = "Unsupported language"
    /\ calls.submit = 0

\* the submission was answered without a usable token
AnsweredWithoutToken ==
    /\ createData.answered
    /\ createData.data.isNull \/ ~createData.data.hasToken \/ createData.data.token = ""

\* C8: a submission answered without a token ends the request with 500 and
\* the raw answer attached, and no status request is issued; every status
\* request carries the token this request's submission returned.
C8_TokenRequired ==
    /\ AnsweredWithoutToken =>
          /\ pc = "done"
          /\ sent = 1
          /\ response.status = 500
          /\ response.error = "Judge0 did not return a token"
          /\ response.rawCreate = createData.data
          /\ calls.status = 0
          /\ pollTokens = {}
    /\ calls.status > 0 =>
          /\ createData.answered
          /\ createData.data.hasToken
          /\ pollTokens = {createData.data.token}

\* the judge answers the submission with an error object and no token
C8_Witness ==
    /\ createData.answered
    /\ ~createData.data.isNull
    /\ ~createData.data.hasToken
    /\ pc = "done"
    /\ response.status = 500
    /\ response.rawCreate = createData.data
    /\ calls.status = 0

\* C9: a request never gets more than one response and has exactly one when
\* the handler is done; the submission is issued at most once; when the submission or a status request
\* throws, the request ends with 500 "Execution failed", no call is issued
\* after the failed one and no earlier poll snapshot is in the response.
C9_FailuresEndTheRequest ==
    /\ sent <= 1
    /\ (pc = "done") <=> (sent = 1)
    /\ sent = 1 => response.status \in {200, 400, 500} /\ response.kind # "none"
    /\ calls.submit <= 1
    /\ failure.call \in {"submit", "status"} =>
          /\ pc = "done"
          /\ calls = failure.calls
          /\ \E f \in Failures :
                response = [ErrorResponse(500, "Execution failed") EXCEPT !.details = f]
          /\ response.raw = NullData
          /\ response.text = <<>>

\* the third status request fails after two snapshots had been received
C9_Witness ==
    /\ failure.call = "status"
    /\ calls.status = 3
    /\ ~resultData.isNull
    /\ pc = "done"
    /\ sent = 1
    /\ response.status = 500
    /\ response.error = "Execution failed"

-----------------------------------------------------------------------------
(* Properties of safeDecode, under SpecDecode *)

\* not a letter, a digit, '+', '/', '=' or whitespace
OutsideBase64Alphabet(c) ==
    ~(\/ c \in 65..90
      \/ c \in 97..122
      \/ c \in 48..57
      \/ c \in {43, 47, 61}
      \/ IsWhitespace(c))

-----------------------------------------------------------------------------
(* Termination of the poll loop *)

\* a bound on the steps the handler still takes: it is waiting for an answer
\* or for a timer, and every answer and every timer brings it closer to done
LoopVariant ==
    IF pc = "done" THEN 0
    ELSE IF pc = "sleep" THEN 2 * (26 - calls.status)
    ELSE IF pc = "awaitPoll" THEN 2 * (26 - calls.status) + 1
    ELSE IF pc = "awaitSubmit" THEN 58
    ELSE IF pc \in {"awaitLangs", "awaitGen"} THEN 59
    ELSE 60

\* C11: at most 25 status requests are issued; each of them is issued less
\* than timeoutMs (20,000 ms) after startAt, the clock reading taken when the
\* submission was answered; a status request follows the one before it by at
\* least pollIntervalMs (800 ms); and every step of the handler (an answer, a
\* failure, a timer firing) lowers a non-negative variant that is 0 only when
\* the response has been sent, so the loop cannot go on for ever.
C11_PollLoopTerminates ==
    /\ [](/\ calls.status <= 25
          /\ calls.status >= 1 => lastPollAt - startAt < timeoutMs
          /\ LoopVariant >= 0
          /\ LoopVariant = 0 <=> sent = 1)
    /\ [][(calls'.status > calls.status /\ calls.status >= 1)
             => lastPollAt' - lastPollAt >= pollIntervalMs]_vars
    /\ [][LoopVariant' < LoopVariant]_vars

\* 25 status requests, none answered with status.id > 2, then the response
C11_Witness ==
    /\ pc = "done"
    /\ calls.status = 25
    /\ termAt = 0
    /\ failure.call = "none"
    /\ lastPollAt - startAt = 24 * pollIntervalMs
    /\ now - startAt >= timeoutMs
    /\ sent = 1

====
